---- MODULE Spec2Model ----
(***************************************************************************)
(* errf: a factory of tagged error records (src/src/factory.ts), the       *)
(* dispatcher `match` and the promotion `mapToUserFacingError`             *)
(* (src/src/utils.ts).                                                     *)
(*                                                                         *)
(* JavaScript values are tagged records [t |-> typeof, v |-> payload];     *)
(* plain objects are property maps (functions from key strings to values). *)
(* Objects that have an identity (the error records) live in `heap` and    *)
(* are referred to by their index.                                         *)
(***************************************************************************)
EXTENDS Integers, Sequences, FiniteSets

\* ---------------------------------------------------------------- bounds
MaxRecords == 2
MaxTime == 1

\* ------------------------------------------------------ JavaScript values
Undefined == [t |-> "undefined"]
Str(s) == [t |-> "string", v |-> s]
Bool(b) == [t |-> "boolean", v |-> b]
Num(n) == [t |-> "number", v |-> n]
Fn(id) == [t |-> "function", v |-> id]
Obj(props) == [t |-> "object", v |-> props]
\* an Error instance: an object whose own properties are not enumerable
Err(m) == [t |-> "error", v |-> m]
\* a reference to a record of the heap
Ref(i) == [t |-> "ref", v |-> i]
\* the fault a call raises instead of returning
TypeError == [t |-> "fault", v |-> "TypeError"]
\* a fault a caller's rendering function raises itself
RangeError == [t |-> "fault", v |-> "RangeError"]

EmptyProps == [k \in {} |-> Undefined]

\* Object.prototype members every plain object inherits
ObjectPrototype == [toString |-> Fn("Object.prototype.toString")]

\* obj[key]: own property first, then the prototype chain, else undefined
Get(props, key) ==
    IF key \in DOMAIN props THEN props[key]
    ELSE IF key \in DOMAIN ObjectPrototype THEN ObjectPrototype[key]
    ELSE Undefined

\* if (v) ...
Truthy(v) ==
    CASE v.t = "undefined" -> FALSE
      [] v.t = "string" -> v.v # ""
      [] v.t = "boolean" -> v.v
      [] v.t = "number" -> v.v # 0
      [] OTHER -> TRUE

\* `${v}`
TemplateString(v) ==
    CASE v.t = "string" -> v.v
      [] v.t = "undefined" -> "undefined"
      [] OTHER -> "[object Object]"

\* a ?? b
Nullish(a, b) == IF a.t = "undefined" THEN b ELSE a

Return(v) == [ok |-> TRUE, value |-> v]
Throw(f) == [ok |-> FALSE, value |-> f]

\* -------------------------------------------- the declared error variants
\* the rendering functions of the declarations, applied to `args`
\* (reading a property of undefined raises a TypeError; the userMessage
\* function of InvalidArgumentError refuses a missing value)
ApplyRender(id, args) ==
    IF args.t # "object" THEN Throw(TypeError)
    ELSE CASE id = "internalMessage" ->
                Return(Str("Internal error: " \o TemplateString(Get(args.v, "message"))))
           [] id = "invalidArgument" ->
                Return(Str("Invalid argument: " \o TemplateString(Get(args.v, "field"))
                           \o " = " \o TemplateString(Get(args.v, "value"))))
           [] id = "invalidArgumentUser" ->
                IF Get(args.v, "value").t = "undefined" THEN Throw(RangeError)
                ELSE Return(Str("Invalid argument: " \o TemplateString(Get(args.v, "field"))
                                \o " = " \o TemplateString(Get(args.v, "value"))))

\* the configuration handed to create()
errors ==
    [InternalError |->
        [code |-> Str("INTERNAL_001"), message |-> Fn("internalMessage")],
     InvalidArgumentError |->
        [code |-> Str("USER_001"), message |-> Fn("invalidArgument"),
         userMessage |-> Fn("invalidArgumentUser")],
     NotFoundError |->
        [code |-> Str("USER_002"), message |-> Str("Not found"),
         userMessage |-> Str("We could not find that"),
         recoverable |-> Bool(TRUE)],
     BlankError |->
        [code |-> Str("USER_003"), message |-> Str("Blank"),
         userMessage |-> Str("")],
     toString |->
        [code |-> Str("INTERNAL_002"), message |-> Str("Unexpected state")]]

Names == DOMAIN errors

\* the argument objects a caller passes, per variant
ArgsOf(k) ==
    CASE k = "InternalError" ->
            {Obj([message |-> Str("test")]), Undefined}
      [] k = "InvalidArgumentError" ->
            {Obj([field |-> Str("test"), value |-> Str("test")]),
             Obj([field |-> Str("test")])}
      [] OTHER -> {Undefined}

\* the upstream faults a caller attaches, per variant
CausesOf(k) ==
    IF k \in {"InternalError", "NotFoundError"}
    THEN {Undefined, Err("boom")}
    ELSE {Undefined}

\* ------------------------------------------------------------- factory.ts
\* a rendering whose fault is caught and replaced by an undefined message
RenderSwallowing(template, args) ==
    IF template.t = "function" /\ ApplyRender(template.v, args).ok
    THEN ApplyRender(template.v, args)
    ELSE IF template.t = "function" THEN Return(Undefined)
    ELSE Return(template)

\* message: typeof value.message === 'function' ? value.message(args) : value.message
Render(template, args) ==
    IF template.t = "function" THEN ApplyRender(template.v, args)
    ELSE Return(template)

\* the closure create() installs for a declaration with a truthy userMessage
UserConstructor(key, value, args, cause, time) ==
    LET m == Render(Get(value, "message"), args)
        u == Render(Get(value, "userMessage"), args)
    IN  IF ~m.ok THEN m
        ELSE IF ~u.ok THEN u
        ELSE Return([type |-> Str("user"),
                     name |-> Str(key),
                     code |-> Get(value, "code"),
                     message |-> m.value,
                     userMessage |-> u.value,
                     recoverable |-> Nullish(Get(value, "recoverable"), Bool(FALSE)),
                     config |-> args,
                     cause |-> cause,
                     timestamp |-> Num(time)])

\* the closure create() installs for every other declaration
InternalConstructor(key, value, args, cause, time) ==
    LET m == Render(Get(value, "message"), args)
    IN  IF ~m.ok THEN m
        ELSE Return([type |-> Str("internal"),
                     name |-> Str(key),
                     code |-> Get(value, "code"),
                     message |-> m.value,
                     recoverable |-> Nullish(Get(value, "recoverable"), Bool(FALSE)),
                     config |-> args,
                     cause |-> cause,
                     timestamp |-> Num(time)])

\* which of the two closures create() installs under a key
IsUserDeclaration(value) == Truthy(Get(value, "userMessage"))

\* create(errors): one constructor per entry of the configuration
create(decls) ==
    [k \in DOMAIN decls |->
        [key |-> k, value |-> decls[k], user |-> IsUserDeclaration(decls[k])]]

\* calling a constructor of the factory with its positional parameters
CallConstructor(ctor, a1, a2, time) ==
    IF ctor.user THEN UserConstructor(ctor.key, ctor.value, a1, a2, time)
    ELSE InternalConstructor(ctor.key, ctor.value, a1, a2, time)

\* ErrorFactory<T>: the constructor of a variant whose message is a
\* function is called as (args, cause?), every other one as (cause?)
TakesArgs(value) == Get(value, "message").t = "function"

Positional(value, args, cause) ==
    IF TakesArgs(value) THEN <<args, cause>> ELSE <<cause, Undefined>>

\* --------------------------------------------------------------- utils.ts
\* the handler functions callers put in their handler sets
ApplyHandler(id, error) ==
    CASE id = "message" -> error.message
      [] id = "apology" -> Str("There was an error serving your request")
      [] id = "Object.prototype.toString" -> Str("[object Object]")

\* the handler sets callers pass: none, one handler, one per internal name
HandlerSets ==
    {EmptyProps,
     [InternalError |-> Fn("apology")],
     [InternalError |-> Fn("message"), toString |-> Fn("apology")]}

\* (handlers as any)[error.name](error); a call of a non-function raises
Dispatch(error, handlers) ==
    LET f == Get(handlers, error.name.v)
    IN  IF f.t = "function"
        THEN [ok |-> TRUE, value |-> ApplyHandler(f.v, error),
              invoked |-> <<[fn |-> f, arg |-> error]>>]
        ELSE [ok |-> FALSE, value |-> TypeError, invoked |-> <<>>]

\* match dispatching on the classification instead of the variant name
matchOnType(error, handlers) ==
    LET d == Dispatch([error EXCEPT !.name = error.type], handlers)
    IN  [ok |-> d.ok, fresh |-> FALSE, value |-> d.value,
         invoked |-> d.invoked, error |-> error]

\* the result of a call: ok/value is what it returns or raises, invoked the
\* handlers it called, error the argument object as the call leaves it, and
\* fresh tells a newly allocated object from the argument itself
match(error, handlers) ==
    LET d == Dispatch(error, handlers)
    IN  [ok |-> d.ok, fresh |-> FALSE, value |-> d.value,
         invoked |-> d.invoked, error |-> error]

\* a field-by-field copy that forgets the cause
SpreadWithoutCause(error, message) ==
    [k \in DOMAIN error \cup {"type", "userMessage"} |->
        CASE k = "type" -> Str("user")
          [] k = "userMessage" -> message
          [] k = "cause" -> Undefined
          [] OTHER -> error[k]]

\* { ...error, type: 'user', userMessage: message }
Spread(error, message) ==
    [k \in DOMAIN error \cup {"type", "userMessage"} |->
        CASE k = "type" -> Str("user")
          [] k = "userMessage" -> message
          [] OTHER -> error[k]]

\* promotion without the early return for user facing records
mapWithoutEarlyReturn(error, handlers) ==
    LET d == Dispatch(error, handlers)
    IN  IF d.ok
        THEN [ok |-> TRUE, fresh |-> TRUE,
              value |-> Spread(error, d.value),
              invoked |-> d.invoked, error |-> error]
        ELSE [ok |-> FALSE, fresh |-> FALSE, value |-> d.value,
              invoked |-> d.invoked, error |-> error]

\* promotion that assigns type and userMessage on the argument itself
mapInPlace(error, handlers) ==
    IF error.type = Str("user")
    THEN [ok |-> TRUE, fresh |-> FALSE, value |-> error,
          invoked |-> <<>>, error |-> error]
    ELSE LET d == Dispatch(error, handlers)
         IN  IF d.ok
             THEN [ok |-> TRUE, fresh |-> FALSE,
                   value |-> Spread(error, d.value),
                   invoked |-> d.invoked, error |-> Spread(error, d.value)]
             ELSE [ok |-> FALSE, fresh |-> FALSE, value |-> d.value,
                   invoked |-> d.invoked, error |-> error]

mapToUserFacingError(error, handlers) ==
    IF error.type = Str("user")
    THEN [ok |-> TRUE, fresh |-> FALSE, value |-> error,
          invoked |-> <<>>, error |-> error]
    ELSE LET d == Dispatch(error, handlers)
         IN  IF d.ok
             THEN [ok |-> TRUE, fresh |-> TRUE,
                   value |-> Spread(error, d.value),
                   invoked |-> d.invoked, error |-> error]
             ELSE [ok |-> FALSE, fresh |-> FALSE, value |-> d.value,
                   invoked |-> d.invoked, error |-> error]

\* ------------------------------------------------------------------ state
VARIABLES
    heap,    \* the error records alive, by identity
    origin,  \* how each record of the heap came to be
    last,    \* the last call: its inputs, what it invoked, its outcome
    now      \* Date.now()

vars == <<heap, origin, last, now>>

factory == create(errors)

NoCall ==
    [op |-> "none", rec |-> 0, handlers |-> EmptyProps, ok |-> TRUE,
     value |-> Undefined, invoked |-> <<>>]

Init ==
    /\ heap = <<>>
    /\ origin = <<>>
    /\ last = NoCall
    /\ now = 0

\* the clock advances between calls
Tick ==
    /\ now < MaxTime
    /\ now' = now + 1
    /\ UNCHANGED <<heap, origin, last>>

\* error.K(args, cause) or error.K(cause)
Construct(k, args, cause) ==
    LET p == Positional(errors[k], args, cause)
        r == CallConstructor(factory[k], p[1], p[2], now)
        call == [key |-> k, args |-> args, cause |-> cause]
        \* the fault of the constructor call just before this one, if any
        prev == IF last.op = "create" /\ ~last.ok THEN last.value ELSE Undefined
    IN  /\ r.ok => Len(heap) < MaxRecords
        /\ IF r.ok
           THEN /\ heap' = Append(heap, r.value)
                /\ origin' = Append(origin,
                      [op |-> "create", key |-> k, args |-> args,
                       cause |-> cause, from |-> 0, at |-> r.value])
                /\ last' = [op |-> "create", rec |-> 0, handlers |-> EmptyProps,
                            ok |-> TRUE, value |-> Ref(Len(heap) + 1),
                            invoked |-> <<>>, call |-> call, prev |-> prev]
           ELSE /\ last' = [op |-> "create", rec |-> 0, handlers |-> EmptyProps,
                            ok |-> FALSE, value |-> r.value, invoked |-> <<>>,
                            call |-> call, prev |-> prev]
                /\ UNCHANGED <<heap, origin>>
        /\ UNCHANGED now

\* match(heap[i], handlers)
Match(i, handlers) ==
    LET r == match(heap[i], handlers)
    IN  /\ heap' = [heap EXCEPT ![i] = r.error]
        /\ last' = [op |-> "match", rec |-> i, handlers |-> handlers,
                    ok |-> r.ok, value |-> r.value, invoked |-> r.invoked]
        /\ UNCHANGED <<origin, now>>

\* mapToUserFacingError(heap[i], handlers)
MapToUserFacing(i, handlers) ==
    LET r == mapToUserFacingError(heap[i], handlers)
        after == [heap EXCEPT ![i] = r.error]
    IN  /\ r.fresh => Len(heap) < MaxRecords
        /\ IF r.fresh
           THEN /\ heap' = Append(after, r.value)
                /\ origin' = Append(origin,
                      [op |-> "map", key |-> origin[i].key, args |-> Undefined,
                       cause |-> Undefined, from |-> i, at |-> r.value])
                /\ last' = [op |-> "map", rec |-> i, handlers |-> handlers,
                            ok |-> TRUE, value |-> Ref(Len(heap) + 1),
                            invoked |-> r.invoked]
           ELSE /\ heap' = after
                /\ origin' = origin
                /\ last' = [op |-> "map", rec |-> i, handlers |-> handlers,
                            ok |-> r.ok,
                            value |-> IF r.ok THEN Ref(i) ELSE r.value,
                            invoked |-> r.invoked]
        /\ UNCHANGED now

Next ==
    \/ Tick
    \/ \E k \in Names : \E args \in ArgsOf(k) : \E cause \in CausesOf(k) :
          Construct(k, args, cause)
    \/ \E i \in 1..Len(heap) : \E handlers \in HandlerSets : Match(i, handlers)
    \/ \E i \in 1..Len(heap) : \E handlers \in HandlerSets :
          MapToUserFacing(i, handlers)

Spec == Init /\ [][Next]_vars

\* ----------------------------------------------------------------- claims
Records == 1..Len(heap)
Constructed == {i \in Records : origin[i].op = "create"}
NameOf(i) == heap[i].name.v
OwnHandler(i, handlers) == NameOf(i) \in DOMAIN handlers

\* C1: a variant declared with a userMessage template (literal or function)
\* yields records of type "user" with a non-empty userMessage; a variant
\* declared without one yields records of type "internal" with no
\* userMessage field.
C1_ClassificationInvariant ==
    \A i \in Constructed :
        LET r == origin[i].at
        IN  IF "userMessage" \in DOMAIN errors[origin[i].key]
            THEN /\ r.type = Str("user")
                 /\ "userMessage" \in DOMAIN r
                 /\ r.userMessage.t = "string"
                 /\ r.userMessage.v # ""
            ELSE /\ r.type = Str("internal")
                 /\ "userMessage" \notin DOMAIN r

\* C2: when the handler set has a handler for the record's name, match
\* invokes that handler exactly once with the record, invokes no other
\* handler, and returns exactly what that handler returned.
C2_MatchDispatch ==
    (last.op = "match" /\ OwnHandler(last.rec, last.handlers)) =>
        LET r == heap[last.rec]
            f == last.handlers[r.name.v]
        IN  /\ last.ok
            /\ last.invoked = <<[fn |-> f, arg |-> r]>>
            /\ last.value = ApplyHandler(f.v, r)

C2_Witness ==
    /\ last.op = "match"
    /\ OwnHandler(last.rec, last.handlers)
    /\ Cardinality(DOMAIN last.handlers) = 2
    /\ last.handlers["InternalError"] # last.handlers["toString"]
    /\ last.ok

\* C3: promoting an internal record r with a handler f for r.name returns a
\* record of type "user" whose userMessage is f(r) and whose name, code,
\* message, recoverable, config, cause and timestamp are those of r.
C3_PromotionCorrect ==
    (/\ last.op = "map"
     /\ origin[last.rec].at.type = Str("internal")
     /\ OwnHandler(last.rec, last.handlers)) =>
        /\ last.ok
        /\ last.value.t = "ref"
        /\ LET r == origin[last.rec].at
               m == heap[last.value.v]
           IN  /\ m.type = Str("user")
               /\ "userMessage" \in DOMAIN m
               /\ m.userMessage = ApplyHandler(last.handlers[r.name.v].v, r)
               /\ DOMAIN m = DOMAIN r \cup {"userMessage"}
               /\ \A k \in DOMAIN r \ {"type"} : m[k] = r[k]

C3_Witness ==
    /\ last.op = "map"
    /\ origin[last.rec].at.type = Str("internal")
    /\ OwnHandler(last.rec, last.handlers)
    /\ last.ok
    /\ origin[last.rec].at.cause = Err("boom")
    /\ heap[last.value.v].cause = Err("boom")
    /\ heap[last.value.v].userMessage = Str("There was an error serving your request")

\* C4: promoting a record of type "user" returns that very record,
\* unchanged, and invokes no handler, whatever the handler set holds; a
\* promoted record that is promoted again keeps its userMessage.
C4_PromotionIdempotent ==
    (last.op = "map" /\ origin[last.rec].at.type = Str("user")) =>
        /\ last.ok
        /\ last.value = Ref(last.rec)
        /\ last.invoked = <<>>
        /\ heap[last.rec] = origin[last.rec].at

C4_Witness ==
    /\ last.op = "map"
    /\ origin[last.rec].op = "map"
    /\ OwnHandler(last.rec, last.handlers)
    /\ last.value = Ref(last.rec)
    /\ heap[last.rec].userMessage # ApplyHandler(last.handlers[NameOf(last.rec)].v, heap[last.rec])

\* C6: config is the args value passed when the variant's message is a
\* rendering function, and undefined when the message is a literal, with or
\* without a cause.
C6_ConfigFidelity ==
    \A i \in Constructed :
        origin[i].at.config =
            IF TakesArgs(errors[origin[i].key]) THEN origin[i].args
            ELSE Undefined

\* C7: cause is the cause the caller supplied under the variant's
\* constructor signature, and undefined when none was supplied.
C7_CauseFidelity ==
    \A i \in Constructed : origin[i].at.cause = origin[i].cause

\* JSON.parse(JSON.stringify(v)): properties holding undefined or a function
\* are omitted, an Error instance has no enumerable property
Serializable(v) == v.t \notin {"undefined", "function"}

RECURSIVE JSONValue(_)
JSONValue(v) ==
    CASE v.t = "object" ->
            Obj([k \in {p \in DOMAIN v.v : Serializable(v.v[p])} |->
                    JSONValue(v.v[k])])
      [] v.t = "error" -> Obj(EmptyProps)
      [] OTHER -> v

JSONRoundTrip(record) ==
    [k \in {p \in DOMAIN record : Serializable(record[p])} |->
        JSONValue(record[k])]

\* the keys a record carries for its classification, cause apart
ContractKeys(record) ==
    {"type", "name", "code", "message", "recoverable", "config", "timestamp"}
        \cup (IF record.type = Str("user") THEN {"userMessage"} ELSE {})

\* C8: every record a constructor or mapToUserFacingError produces keeps,
\* through JSON serialize-then-parse, every key but cause with an equal
\* value.
C8_JSONRoundTrip ==
    \A i \in Records :
        LET r == heap[i]
            j == JSONRoundTrip(r)
        IN  \A k \in ContractKeys(r) : k \in DOMAIN j /\ j[k] = r[k]

\* C9: whatever calls follow, every record keeps the value it had when it
\* was made; promoting an internal record returns a distinct new record and
\* leaves the argument of type "internal" with no userMessage field.
C9_RecordsImmutable ==
    /\ \A i \in Records : heap[i] = origin[i].at
    /\ (/\ last.op = "map"
        /\ last.ok
        /\ origin[last.rec].at.type = Str("internal")) =>
            /\ last.value.t = "ref"
            /\ last.value.v # last.rec
            /\ origin[last.value.v] =
                  [op |-> "map", key |-> origin[last.rec].key,
                   args |-> Undefined, cause |-> Undefined,
                   from |-> last.rec, at |-> heap[last.value.v]]
            /\ heap[last.rec].type = Str("internal")
            /\ "userMessage" \notin DOMAIN heap[last.rec]

C9_Witness ==
    /\ last.op = "match"
    /\ last.ok
    /\ Len(heap) = 2
    /\ origin[2].op = "map"
    /\ origin[2].from = 1
    /\ heap[1].type = Str("internal")
    /\ heap[2].type = Str("user")

\* C10: match, and mapToUserFacingError on an internal record, raise a
\* fault when the handler set declares no handler for the record's name,
\* whatever that name is.
C10_MissingHandlerFaults ==
    (/\ last.op \in {"match", "map"}
     /\ last.op = "map" => origin[last.rec].at.type = Str("internal")
     /\ ~OwnHandler(last.rec, last.handlers)) =>
        ~last.ok

\* what the rendering functions of a declaration raise for an args value:
\* message is rendered first, userMessage only by the user constructor
RenderingFault(value, args) ==
    LET m == Get(value, "message")
        u == Get(value, "userMessage")
    IN  IF m.t = "function" /\ ~ApplyRender(m.v, args).ok
        THEN ApplyRender(m.v, args).value
        ELSE IF u.t = "function" /\ ~ApplyRender(u.v, args).ok
        THEN ApplyRender(u.v, args).value
        ELSE Undefined

C11_Outcome ==
    last.op = "create" =>
        LET f == RenderingFault(errors[last.call.key], last.call.args)
        IN  IF f # Undefined
            THEN ~last.ok /\ last.value = f
            ELSE /\ last.ok
                 /\ last.value.t = "ref"
                 /\ origin[last.value.v].key = last.call.key
                 /\ heap[last.value.v].name = Str(last.call.key)
                 /\ heap[last.value.v].code = errors[last.call.key].code

C11_NoRecord ==
    (last'.op = "create" /\ ~last'.ok) => (heap' = heap /\ origin' = origin)

\* C11: when a variant's message or userMessage rendering function raises a
\* fault during a constructor call, the call raises that very fault, no
\* record is made, and constructor calls made afterwards still return their
\* records.
C11_RenderFaultPropagates == []C11_Outcome /\ [][C11_NoRecord]_vars

C11_Witness ==
    /\ last.op = "create"
    /\ last.ok
    /\ last.prev = RangeError
    /\ last.call.key = "InvalidArgumentError"
    /\ heap[last.value.v].type = Str("user")

====
